---------------------------- MODULE Spec2Model ----------------------------
(***************************************************************************)
(* A model of the loan-analysis backend of the LoanCalculator repository:  *)
(* the AIAnalysisService (backend/src/services/ai-analysis/index.js), the  *)
(* RateTrackerService lookups it calls, the Mongoose collections both read *)
(* and the amortization formula the two frontend components repeat.        *)
(*                                                                         *)
(* JavaScript numbers are modelled as exact fractions <<n, d>> with d > 0, *)
(* extended with the three IEEE special values the code can produce:       *)
(* <<0,0>> is NaN, <<1,0>> is +Infinity and <<-1,0>> is -Infinity.  The    *)
(* rounding of binary64 is modelled separately (the F64 operators) where a *)
(* property depends on it.                                                 *)
(***************************************************************************)
EXTENDS Integers, Sequences, FiniteSets, TLC

VARIABLES
    catalog,            \* the LoanProduct collection, in natural (insertion) order
    rates,              \* the InterestRate collection, in insertion order
    params,             \* the params object of the running analyzeLoanOptions call
    pc,                 \* where the call is: "idle", "metrics", "done"
    eligibleProducts,   \* const eligibleProducts (line 28)
    idx,                \* position of the for-of loop of calculateMetrics
    analyzedProducts,   \* const analyzedProducts (line 81)
    trace,              \* the stages the call has entered, in order
    result              \* what the call returned, or how it ended

vars == <<catalog, rates, params, pc, eligibleProducts, idx, analyzedProducts,
          trace, result>>

-----------------------------------------------------------------------------
(* Bounds of the model.                                                    *)

MaxCatalog == 2
MaxProducts == 2
MaxRates == 2

-----------------------------------------------------------------------------
(* JavaScript numbers.                                                     *)

NaN == <<0, 0>>
PosInf == <<1, 0>>
NegInf == <<0 - 1, 0>>

Abs(x) == IF x < 0 THEN 0 - x ELSE x

Sign(x) == IF x < 0 THEN 0 - 1 ELSE IF x > 0 THEN 1 ELSE 0

RECURSIVE Gcd(_, _)
Gcd(a, b) == IF b = 0 THEN a ELSE Gcd(b, a % b)

\* The fraction n/d in lowest terms; d = 0 gives NaN or a signed Infinity,
\* as IEEE division by zero does.
Frac(n, d) ==
    IF d = 0 THEN <<Sign(n), 0>>
    ELSE LET g == Gcd(Abs(n), Abs(d))
             s == IF d < 0 THEN 0 - 1 ELSE 1
         IN  <<s * (n \div g), s * (d \div g)>>

Num(k) == <<k, 1>>

IsNaN(a) == a = NaN
IsFinite(a) == a[2] # 0

FNeg(a) == <<0 - a[1], a[2]>>

FAdd(a, b) ==
    IF IsNaN(a) \/ IsNaN(b) THEN NaN
    ELSE IF ~IsFinite(a) /\ ~IsFinite(b) THEN (IF a = b THEN a ELSE NaN)
    ELSE IF ~IsFinite(a) THEN a
    ELSE IF ~IsFinite(b) THEN b
    ELSE LET g == Gcd(a[2], b[2])
         IN  Frac(a[1] * (b[2] \div g) + b[1] * (a[2] \div g), (a[2] \div g) * b[2])

FSub(a, b) == FAdd(a, FNeg(b))

FMul(a, b) ==
    IF IsNaN(a) \/ IsNaN(b) THEN NaN
    ELSE IF ~IsFinite(a) \/ ~IsFinite(b)
         THEN <<Sign(a[1]) * Sign(b[1]), 0>>      \* 0 * Infinity is NaN
    ELSE LET g1 == Gcd(Abs(a[1]), b[2])
             g2 == Gcd(Abs(b[1]), a[2])
         IN  Frac((a[1] \div g1) * (b[1] \div g2), (a[2] \div g2) * (b[2] \div g1))

FDiv(a, b) ==
    IF IsNaN(a) \/ IsNaN(b) THEN NaN
    ELSE IF ~IsFinite(a) /\ ~IsFinite(b) THEN NaN
    ELSE IF ~IsFinite(b) THEN Num(0)
    ELSE IF ~IsFinite(a) THEN <<a[1] * (IF b[1] < 0 THEN 0 - 1 ELSE 1), 0>>
    ELSE IF b[1] = 0 THEN <<Sign(a[1]), 0>>       \* x/0 is an Infinity, 0/0 is NaN
    ELSE FMul(a, Frac(b[2], b[1]))

\* a < b, a <= b and a === b of JavaScript: every comparison with NaN is false.
FLt(a, b) ==
    /\ ~IsNaN(a)
    /\ ~IsNaN(b)
    /\ IF IsFinite(a) /\ IsFinite(b) THEN a[1] * b[2] < b[1] * a[2]
       ELSE IF IsFinite(a) THEN b = PosInf
       ELSE IF IsFinite(b) THEN a = NegInf
       ELSE a = NegInf /\ b = PosInf

FEq(a, b) == ~IsNaN(a) /\ ~IsNaN(b) /\ a = b

FLe(a, b) == FLt(a, b) \/ FEq(a, b)

\* Math.min and Math.max: NaN if either argument is NaN.
MathMin(a, b) == IF IsNaN(a) \/ IsNaN(b) THEN NaN ELSE IF FLt(b, a) THEN b ELSE a

MathMax(a, b) == IF IsNaN(a) \/ IsNaN(b) THEN NaN ELSE IF FLt(a, b) THEN b ELSE a

\* Math.pow(base, n) for an integer n >= 0; Math.pow(x, 0) is 1 for every x.
RECURSIVE MathPow(_, _)
MathPow(base, n) == IF n = 0 THEN Num(1) ELSE FMul(base, MathPow(base, n - 1))

-----------------------------------------------------------------------------
(* The LoanProduct collection and the eligibility query.                   *)

\* Number.MAX_SAFE_INTEGER (2^53 - 1), held as the largest integer the model
\* checker represents: larger than every amount and term of the model.
MAX_SAFE_INTEGER == 2147483647

LoanTypes == {"Mortgage", "Auto"}

\* A field the schema declares without default or "required" may be missing from
\* a document: it is modelled as a set, empty when the field is absent.
LoanProductSchema ==
    [ id : {0},
      type : LoanTypes,
      minAmount : {0, 150},
      maxAmount : {{}, {100}, {MAX_SAFE_INTEGER}},
      minTerm : {1},
      maxTerm : {{}, {2}},
      minCreditScore : {600},
      perks : {{}},
      active : BOOLEAN ]

\* The query operand the code builds for maxAmount and maxTerm: x || MAX_SAFE_INTEGER.
OrMaxSafe(x) == IF x = 0 THEN MAX_SAFE_INTEGER ELSE x

\* MongoDB's { field: { $gte: v } }: a document without the field does not match.
Gte(field, v) == \E x \in field : x >= v

MatchesDropActive(p, loanType, amount, term, creditScore) ==
    /\ p.type = loanType
    /\ p.minAmount <= amount
    /\ Gte(p.maxAmount, OrMaxSafe(amount))
    /\ p.minTerm <= term
    /\ Gte(p.maxTerm, OrMaxSafe(term))
    /\ p.minCreditScore <= creditScore

\* The filter document of getEligibleProducts.
Matches(p, loanType, amount, term, creditScore) ==
    /\ p.type = loanType
    /\ p.minAmount <= amount
    /\ Gte(p.maxAmount, OrMaxSafe(amount))
    /\ p.minTerm <= term
    /\ Gte(p.maxTerm, OrMaxSafe(term))
    /\ p.minCreditScore <= creditScore
    /\ p.active

\* LoanProduct.find(filter): the matching documents in natural order.
getEligibleProducts(cat, loanType, amount, term, creditScore) ==
    SelectSeq(cat, LAMBDA p : Matches(p, loanType, amount, term, creditScore))

\* const { creditScore = 700 } = params: the score the call works with.
CreditScoreOf(q) == IF q.creditScore = {} THEN 700 ELSE CHOOSE x \in q.creditScore : TRUE

\* The documents of a collection get distinct ids: here, their position.
WithIds(docs) == [i \in DOMAIN docs |-> [docs[i] EXCEPT !.id = i]]

Catalogs(kinds, n) == {WithIds(docs) : docs \in UNION {[1..k -> kinds] : k \in 1..n}}

Range(s) == {s[i] : i \in DOMAIN s}

\* s is t with some elements left out, the others in t's order.
RECURSIVE IsSubSeq(_, _)
IsSubSeq(s, t) ==
    IF s = <<>> THEN TRUE
    ELSE IF t = <<>> THEN FALSE
    ELSE IF Head(s) = Head(t) THEN IsSubSeq(Tail(s), Tail(t))
    ELSE IsSubSeq(s, Tail(t))

-----------------------------------------------------------------------------
(* The InterestRate collection and the lookup of RateTrackerService.       *)

\* The credit score getLatestRate filters on when its caller passes none.
DefaultLookupScore == 720

\* The observations getLatestRate's filter matches: those of the product whose
\* creditScoreRange.min <= creditScore <= creditScoreRange.max.
RateMatches(obs, loanProductId, creditScore) ==
    /\ obs.loanProduct = loanProductId
    /\ obs.creditScoreRange.min <= creditScore
    /\ obs.creditScoreRange.max >= creditScore

\* getLatestRate: findOne(filter).sort({ date: -1 }), a matching observation of
\* the latest date (any of them when several share it); the empty set is null.
getLatestRate(store, loanProductId, creditScore) ==
    LET hits == {i \in DOMAIN store : RateMatches(store[i], loanProductId, creditScore)}
    IN  {store[i] : i \in {j \in hits : \A k \in hits : store[k].date <= store[j].date}}

-----------------------------------------------------------------------------
(* calculateMetrics: the amortization formula and the auxiliary scores.    *)

\* The three results of the formula of lines 90-96 of the analysis service.
Amortization(amount, rate, term) ==
    LET monthlyRate == FDiv(FDiv(rate, Num(100)), Num(12))
        growth == MathPow(FAdd(Num(1), monthlyRate), term)
        monthlyPayment ==
            FDiv(FMul(FMul(amount, monthlyRate), growth), FSub(growth, Num(1)))
        totalPayment == FMul(monthlyPayment, Num(term))
    IN  [monthlyPayment |-> monthlyPayment,
         totalPayment |-> totalPayment,
         totalInterest |-> FSub(totalPayment, amount)]

\* String.prototype.includes on the perk strings of the model.
PerkStrings == {"No prepayment penalty", "Flexible payment options", "Rate lock guarantee"}

Includes(perk, part) ==
    \/ part = "No prepayment" /\ perk = "No prepayment penalty"
    \/ part = "payment options" /\ perk = "Flexible payment options"

\* LoanProductSchema declares no fees field, so product.fees is undefined.
calculateAPR(interestRate, product) == FAdd(interestRate, Num(0))

assessFlexibility(product) ==
    LET s0 == Frac(1, 2)
        s1 == IF \E perk \in product.perks : Includes(perk, "No prepayment")
              THEN FAdd(s0, Frac(2, 10)) ELSE s0
        s2 == IF \E perk \in product.perks : Includes(perk, "payment options")
              THEN FAdd(s1, Frac(2, 10)) ELSE s1
    IN  MathMin(s2, Num(1))

\* 0.6 + Math.random() * 0.35: the draws the model takes from [0.6, 0.95).
CustomerServiceDraws == {Frac(6, 10), Frac(9, 10)}

assessApprovalLikelihood(product, creditScoreRange) ==
    MathMin(Num(1), FDiv(Num(creditScoreRange.max - creditScoreRange.min), Num(200)))

\* The object calculateMetrics pushes for a product whose lookup returned rateInfo.
AnalyzedProduct(product, rateInfo, amount, term, service) ==
    LET a == Amortization(Num(amount), rateInfo.rate, term)
    IN  [product |-> product,
         interestRate |-> rateInfo.rate,
         monthlyPayment |-> a.monthlyPayment,
         totalPayment |-> a.totalPayment,
         totalInterest |-> a.totalInterest,
         apr |-> calculateAPR(rateInfo.rate, product),
         flexibility |-> assessFlexibility(product),
         customerService |-> service,
         approvalLikelihood |-> assessApprovalLikelihood(product, rateInfo.creditScoreRange)]

-----------------------------------------------------------------------------
(* Array.prototype.sort with a comparator that subtracts two numbers.      *)

\* The comparator's verdict on (a, b): the sign of a[key] - b[key], or of
\* b[key] - a[key] when descending; a NaN difference counts as +0.
SortCompare(a, b, key, descending) ==
    LET d == IF descending THEN FSub(b[key], a[key]) ELSE FSub(a[key], b[key])
    IN  IF IsNaN(d) THEN 0 ELSE Sign(d[1])

\* x put into a sorted sequence, after every element it does not precede.
RECURSIVE InsertSorted(_, _, _, _)
InsertSorted(x, sorted, key, descending) ==
    IF sorted = <<>> THEN <<x>>
    ELSE LET last == sorted[Len(sorted)]
         IN  IF SortCompare(last, x, key, descending) > 0
             THEN Append(InsertSorted(x, SubSeq(sorted, 1, Len(sorted) - 1), key, descending),
                         last)
             ELSE Append(sorted, x)

RECURSIVE StableSort(_, _, _)
StableSort(s, key, descending) ==
    IF s = <<>> THEN <<>>
    ELSE InsertSorted(s[Len(s)], StableSort(SubSeq(s, 1, Len(s) - 1), key, descending),
                      key, descending)

\* Whether the comparator orders the elements of s consistently (ECMAScript's
\* "consistent comparator"); it can fail to when some keys are NaN.
ConsistentComparator(s, key, descending) ==
    \A a, b, c \in Range(s) :
        LET ab == SortCompare(a, b, key, descending)
            bc == SortCompare(b, c, key, descending)
            ac == SortCompare(a, c, key, descending)
        IN  /\ (ab = 0 /\ bc = 0) => ac = 0
            /\ (ab < 0 /\ bc = 0) => ac < 0
            /\ (ab = 0 /\ bc < 0) => ac < 0
            /\ (ab < 0 /\ bc < 0) => ac < 0

PermutationsOf(s) ==
    {[i \in DOMAIN s |-> s[f[i]]] : f \in {g \in [DOMAIN s -> DOMAIN s] :
                                            \A i, j \in DOMAIN s : i # j => g[i] # g[j]}}

\* The orders sort can leave s in: the stable order under a consistent comparator,
\* an implementation-defined one otherwise.
ArraySort(s, key, descending) ==
    IF ConsistentComparator(s, key, descending)
    THEN {StableSort(s, key, descending)}
    ELSE PermutationsOf(s)

-----------------------------------------------------------------------------
(* rankProducts.                                                           *)

PreferenceFlags ==
    {"prioritizeRate", "prioritizePayment", "prioritizeService",
     "prioritizeFlexibility", "prioritizeApproval"}

\* Object.keys(weights) and Object.keys(scores), in insertion order.
ScoreKeys ==
    <<"interestRate", "monthlyPayment", "customerService", "flexibility",
      "approvalLikelihood">>

RawWeights(preferences) ==
    [interestRate |-> IF "prioritizeRate" \in preferences THEN Frac(4, 10) ELSE Frac(3, 10),
     monthlyPayment |-> IF "prioritizePayment" \in preferences THEN Frac(4, 10) ELSE Frac(2, 10),
     customerService |-> IF "prioritizeService" \in preferences THEN Frac(3, 10) ELSE Frac(1, 10),
     flexibility |-> IF "prioritizeFlexibility" \in preferences THEN Frac(3, 10) ELSE Frac(1, 10),
     approvalLikelihood |-> IF "prioritizeApproval" \in preferences THEN Frac(3, 10) ELSE Frac(2, 10)]

\* reduce((sum, x) => sum + x, 0) over the values of f at the keys, in order.
RECURSIVE SumOver(_, _)
SumOver(f, keys) ==
    IF keys = <<>> THEN Num(0)
    ELSE FAdd(SumOver(f, SubSeq(keys, 1, Len(keys) - 1)), f[keys[Len(keys)]])

\* The weights after "weights[key] /= totalWeight".
Weights(preferences) ==
    LET raw == RawWeights(preferences)
        totalWeight == SumOver(raw, ScoreKeys)
    IN  [k \in DOMAIN raw |-> FDiv(raw[k], totalWeight)]

\* ranges[key] after the forEach of lines 141-146.
RECURSIVE MetricRange(_, _)
MetricRange(products, key) ==
    IF products = <<>> THEN [min |-> PosInf, max |-> NegInf]
    ELSE LET r == MetricRange(SubSeq(products, 1, Len(products) - 1), key)
             v == products[Len(products)][key]
         IN  [min |-> MathMin(r.min, v), max |-> MathMax(r.max, v)]

normalize(value, min, max) ==
    IF FEq(min, max) THEN Frac(1, 2)
    ELSE FDiv(FSub(value, min), FSub(max, min))

ScoresOf(product, rateRange, paymentRange) ==
    [interestRate |->
        FSub(Num(1), normalize(product.interestRate, rateRange.min, rateRange.max)),
     monthlyPayment |->
        FSub(Num(1), normalize(product.monthlyPayment, paymentRange.min, paymentRange.max)),
     customerService |-> product.customerService,
     flexibility |-> product.flexibility,
     approvalLikelihood |-> product.approvalLikelihood]

RECURSIVE WeightedSum(_, _, _)
WeightedSum(scores, weights, keys) ==
    IF keys = <<>> THEN Num(0)
    ELSE FAdd(WeightedSum(scores, weights, SubSeq(keys, 1, Len(keys) - 1)),
              FMul(scores[keys[Len(keys)]], weights[keys[Len(keys)]]))

\* scoredProducts: each analyzed product with its scores and totalScore.
ScoredProducts(products, preferences) ==
    LET weights == Weights(preferences)
        rateRange == MetricRange(products, "interestRate")
        paymentRange == MetricRange(products, "monthlyPayment")
    IN  [i \in DOMAIN products |->
            LET scores == ScoresOf(products[i], rateRange, paymentRange)
            IN  [product |-> products[i].product,
                 interestRate |-> products[i].interestRate,
                 monthlyPayment |-> products[i].monthlyPayment,
                 totalPayment |-> products[i].totalPayment,
                 totalInterest |-> products[i].totalInterest,
                 apr |-> products[i].apr,
                 flexibility |-> products[i].flexibility,
                 customerService |-> products[i].customerService,
                 approvalLikelihood |-> products[i].approvalLikelihood,
                 scores |-> scores,
                 totalScore |-> WeightedSum(scores, weights, ScoreKeys)]]

\* The lists rankProducts can return.
rankProducts(products, preferences) ==
    ArraySort(ScoredProducts(products, preferences), "totalScore", TRUE)

-----------------------------------------------------------------------------
(* The weights of rankProducts in binary64, the arithmetic the code runs   *)
(* in.  A positive binary64 number is [m, e] with value m * 2^e and        *)
(* 2^52 <= m < 2^53; m is held in two limbs <<hi, lo>>, m = hi * 2^28 + lo.*)
(* Every operation rounds to nearest, ties to even.                        *)

LimbBase == 2 ^ 28

BigZero == <<0, 0>>
Two52 == <<2 ^ 24, 0>>
Two53 == <<2 ^ 25, 0>>

BigLt(a, b) == a[1] < b[1] \/ (a[1] = b[1] /\ a[2] < b[2])

BigAdd(a, b) ==
    LET lo == a[2] + b[2]
    IN  <<a[1] + b[1] + (lo \div LimbBase), lo % LimbBase>>

\* a - b for a >= b.
BigSub(a, b) ==
    IF a[2] >= b[2] THEN <<a[1] - b[1], a[2] - b[2]>>
    ELSE <<a[1] - b[1] - 1, a[2] + LimbBase - b[2]>>

BigDouble(a) == BigAdd(a, a)

BigHalf(a) == <<a[1] \div 2, (a[2] + (a[1] % 2) * LimbBase) \div 2>>

BigOdd(a) == a[2] % 2 = 1

\* a shifted right by k bits, a lost 1 kept in the lowest bit (the sticky bit).
RECURSIVE ShiftRightSticky(_, _)
ShiftRightSticky(a, k) ==
    IF k = 0 THEN a
    ELSE LET h == BigHalf(a)
         IN  ShiftRightSticky(IF BigOdd(a) /\ ~BigOdd(h) THEN BigAdd(h, <<0, 1>>) ELSE h,
                              k - 1)

Zero64 == [m |-> BigZero, e |-> 0]
One64 == [m |-> Two52, e |-> 0 - 52]

\* The 53-bit m, rounded up by one when roundUp, as a normalized number.
Rounded64(m, e, roundUp) ==
    LET m1 == IF roundUp THEN BigAdd(m, <<0, 1>>) ELSE m
    IN  IF m1 = Two53 THEN [m |-> Two52, e |-> e + 1] ELSE [m |-> m1, e |-> e]

\* bits more quotient bits of r/d by long division: <<quotient, remainder>>.
\* (q is compared with itself so that it is evaluated at every step.)
RECURSIVE DivBits(_, _, _, _)
DivBits(r, d, q, bits) ==
    IF bits = 0 \/ q # q THEN <<q, r>>
    ELSE LET r2 == BigDouble(r)
             q2 == BigDouble(q)
         IN  IF BigLt(r2, d) THEN DivBits(r2, d, q2, bits - 1)
             ELSE DivBits(BigSub(r2, d), d, BigAdd(q2, <<0, 1>>), bits - 1)

\* The quotient of two positive numbers with m-parts n >= d... < 2d scaled by 2^e.
Quotient64(n, d, e) ==
    LET qr == DivBits(BigSub(n, d), d, <<0, 1>>, 52)
        q == qr[1]
        twice == BigDouble(qr[2])
    IN  Rounded64(q, e - 52, BigLt(d, twice) \/ (twice = d /\ BigOdd(q)))

\* n * 2^k for the least k >= 0 with n * 2^k >= d, and that k.
RECURSIVE ScaledUp(_, _, _)
ScaledUp(n, d, k) == IF n >= d THEN <<n, k>> ELSE ScaledUp(2 * n, d, k + 1)

\* The binary64 number nearest to n/d, for integers 0 <= n < 2d and d > 0: what
\* a decimal literal such as 0.3 (3/10) denotes.
Literal64(n, d) ==
    IF n = 0 THEN Zero64
    ELSE LET s == ScaledUp(n, d, 0)
         IN  Quotient64(<<0, s[1]>>, <<0, d>>, 0 - s[2])

\* a / b for positive a and b.
F64Div(a, b) ==
    IF BigLt(a.m, b.m)
    THEN Quotient64(BigDouble(a.m), b.m, a.e - b.e - 1)
    ELSE Quotient64(a.m, b.m, a.e - b.e)

\* a + b for a, b >= 0: the sum with three extra bits, then rounded.
F64Add(a, b) ==
    IF a.m = BigZero THEN b
    ELSE IF b.m = BigZero THEN a
    ELSE LET big == IF a.e >= b.e THEN a ELSE b
             small == IF a.e >= b.e THEN b ELSE a
             times8(x) == BigDouble(BigDouble(BigDouble(x)))
             sum == BigAdd(times8(big.m), ShiftRightSticky(times8(small.m), big.e - small.e))
             carry == ~BigLt(sum, times8(Two53))
             s == IF carry THEN ShiftRightSticky(sum, 1) ELSE sum
             m == BigHalf(BigHalf(BigHalf(s)))
             rest == s[2] % 8
         IN  Rounded64(m, IF carry THEN big.e + 1 ELSE big.e,
                       rest > 4 \/ (rest = 4 /\ BigOdd(m)))

RawWeights64(preferences) ==
    [interestRate |-> IF "prioritizeRate" \in preferences THEN Literal64(4, 10) ELSE Literal64(3, 10),
     monthlyPayment |-> IF "prioritizePayment" \in preferences THEN Literal64(4, 10) ELSE Literal64(2, 10),
     customerService |-> IF "prioritizeService" \in preferences THEN Literal64(3, 10) ELSE Literal64(1, 10),
     flexibility |-> IF "prioritizeFlexibility" \in preferences THEN Literal64(3, 10) ELSE Literal64(1, 10),
     approvalLikelihood |-> IF "prioritizeApproval" \in preferences THEN Literal64(3, 10) ELSE Literal64(2, 10)]

\* reduce((sum, w) => sum + w, 0) in binary64.
RECURSIVE SumOver64(_, _)
SumOver64(f, keys) ==
    IF keys = <<>> THEN Zero64
    ELSE F64Add(SumOver64(f, SubSeq(keys, 1, Len(keys) - 1)), f[keys[Len(keys)]])

\* The weights had the division by totalWeight been left out.
Weights64Unnormalized(preferences) == RawWeights64(preferences)

\* The weights after "weights[key] /= totalWeight", as the code computes them.
Weights64(preferences) ==
    LET raw == RawWeights64(preferences)
        totalWeight == SumOver64(raw, ScoreKeys)
    IN  [k \in DOMAIN raw |-> F64Div(raw[k], totalWeight)]

-----------------------------------------------------------------------------
(* generateRecommendations, generateInsights, getEducationalContent.       *)

Null == [isNull |-> TRUE]

\* The sentences of the recommendation text, by what they say.
RecommendationText(bestOverall, lowestRate, lowestPayment) ==
    <<"recommend", "competitive_rate">>
    \o (IF bestOverall # lowestRate THEN <<"lowest_rate">> ELSE <<>>)
    \o (IF bestOverall # lowestPayment /\ lowestRate # lowestPayment
        THEN <<"lowest_payment">> ELSE <<>>)

\* The objects generateRecommendations can return.
generateRecommendations(rankedProducts, q) ==
    IF rankedProducts = <<>>
    THEN {[bestOverall |-> Null, lowestRate |-> Null, lowestPayment |-> Null,
           text |-> <<"no_suitable_options">>]}
    ELSE {[bestOverall |-> rankedProducts[1],
           lowestRate |-> byRate[1],
           lowestPayment |-> byPayment[1],
           text |-> RecommendationText(rankedProducts[1], byRate[1], byPayment[1])] :
             byRate \in ArraySort(rankedProducts, "interestRate", FALSE),
             byPayment \in ArraySort(rankedProducts, "monthlyPayment", FALSE)}

\* trendMap[loanType] || { avg: 6.0, trend: 'stable' }
TrendOf(loanType) ==
    IF loanType = "Mortgage" THEN [avg |-> Frac(55, 10), trend |-> "rising"]
    ELSE IF loanType = "Personal" THEN [avg |-> Num(8), trend |-> "stable"]
    ELSE IF loanType = "Auto" THEN [avg |-> Num(4), trend |-> "rising"]
    ELSE IF loanType = "Student" THEN [avg |-> Frac(55, 10), trend |-> "falling"]
    ELSE IF loanType = "Business" THEN [avg |-> Num(7), trend |-> "rising"]
    ELSE [avg |-> Num(6), trend |-> "stable"]

getRateTrendText(loanType, currentRate) ==
    LET t == TrendOf(loanType)
    IN  IF FLt(currentRate, FSub(t.avg, Frac(1, 2))) THEN <<"below", t.trend>>
        ELSE IF FLt(FAdd(t.avg, Frac(1, 2)), currentRate) THEN <<"above", t.trend>>
        ELSE <<"around", t.trend>>

\* creditScore is params.creditScore: undefined (the empty set) when the caller
\* gave none, and every comparison with undefined is false.
getCreditScoreImpactText(creditScore, products) ==
    IF \E x \in creditScore : x >= 750 THEN "excellent"
    ELSE IF \E x \in creditScore : x >= 700 THEN "good"
    ELSE IF \E x \in creditScore : x >= 650 THEN "fair"
    ELSE "limiting"

getTermImpactText(term, topProduct) ==
    <<IF term <= 36 THEN "higher_payments" ELSE IF term <= 60 THEN "balanced" ELSE "lower_payments",
      topProduct.totalInterest>>

\* null (the empty set) when no candidate has a perk; else that there are some.
findSpecialOffers(products) ==
    LET uniquePerks == UNION {products[i].product.perks : i \in DOMAIN products}
    IN  IF uniquePerks = {} THEN {} ELSE {Cardinality(uniquePerks)}

RECURSIVE SumRates(_)
SumRates(products) ==
    IF products = <<>> THEN Num(0)
    ELSE FAdd(SumRates(SubSeq(products, 1, Len(products) - 1)),
              products[Len(products)].interestRate)

generateInsights(rankedProducts, q) ==
    IF rankedProducts = <<>> THEN <<>>
    ELSE LET avgRate == FDiv(SumRates(rankedProducts), Num(Len(rankedProducts)))
         IN  << [type |-> "rate_trend", text |-> getRateTrendText(q.loanType, avgRate)],
                [type |-> "credit_impact",
                 text |-> getCreditScoreImpactText(q.creditScore, rankedProducts)],
                [type |-> "term_impact", text |-> getTermImpactText(q.term, rankedProducts[1])] >>
             \o (IF findSpecialOffers(rankedProducts) # {}
                 THEN <<[type |-> "special_offers", text |-> findSpecialOffers(rankedProducts)]>>
                 ELSE <<>>)

\* contentMap[loanType] || the generic entry.
getEducationalContent(loanType) ==
    IF loanType \in {"Mortgage", "Personal"}
    THEN [title |-> loanType, generic |-> FALSE]
    ELSE [title |-> loanType, generic |-> TRUE]

-----------------------------------------------------------------------------
(* suggestAlternatives.                                                    *)

Limit(s, n) == SubSeq(s, 1, IF Len(s) < n THEN Len(s) ELSE n)

LowerCreditFilter(p, loanType, amount, term, creditScore) ==
    /\ p.type = loanType
    /\ p.minAmount <= amount
    /\ Gte(p.maxAmount, OrMaxSafe(amount))
    /\ p.minTerm <= term
    /\ Gte(p.maxTerm, OrMaxSafe(term))
    /\ p.minCreditScore < creditScore - 30
    /\ p.active

DifferentTermFilter(p, loanType, amount, term, creditScore) ==
    /\ p.type = loanType
    /\ p.minAmount <= amount
    /\ Gte(p.maxAmount, OrMaxSafe(amount))
    /\ p.minCreditScore <= creditScore
    /\ p.active
    /\ (p.minTerm <= term - 12 \/ Gte(p.maxTerm, term + 12))

\* suggestAlternatives had the two length tests been left out.
suggestAlternativesAlwaysPush(cat, loanType, amount, term, creditScore) ==
    << [type |-> "lower_credit_options",
        products |-> Limit(SelectSeq(cat, LAMBDA p : LowerCreditFilter(p, loanType, amount,
                                                                       term, creditScore)), 2)],
       [type |-> "different_term_options",
        products |-> Limit(SelectSeq(cat, LAMBDA p : DifferentTermFilter(p, loanType, amount,
                                                                         term, creditScore)), 2)] >>
    \o (IF loanType = "Personal" /\ amount >= 25000
        THEN <<[type |-> "different_loan_type", description |-> "home_equity_loan"]>>
        ELSE <<>>)

suggestAlternatives(cat, loanType, amount, term, creditScore) ==
    LET lowerCreditOptions ==
            Limit(SelectSeq(cat, LAMBDA p : LowerCreditFilter(p, loanType, amount, term,
                                                              creditScore)), 2)
        differentTermOptions ==
            Limit(SelectSeq(cat, LAMBDA p : DifferentTermFilter(p, loanType, amount, term,
                                                                creditScore)), 2)
    IN  (IF Len(lowerCreditOptions) > 0
         THEN <<[type |-> "lower_credit_options", products |-> lowerCreditOptions]>>
         ELSE <<>>)
        \o (IF Len(differentTermOptions) > 0
            THEN <<[type |-> "different_term_options", products |-> differentTermOptions]>>
            ELSE <<>>)
        \o (IF loanType = "Personal" /\ amount >= 25000
            THEN <<[type |-> "different_loan_type", description |-> "home_equity_loan"]>>
            ELSE <<>>)

-----------------------------------------------------------------------------
(* The analysis pipeline: one analyzeLoanOptions call against the two      *)
(* collections, and the rate ingest that appends observations.  The call   *)
(* is cut at its suspension points: the catalog queries and each rate      *)
(* lookup of calculateMetrics.                                             *)

\* The products of the pipeline's catalogs.
PipelineProducts ==
    [ id : {0},
      type : {"Mortgage"},
      minAmount : {0},
      maxAmount : {{MAX_SAFE_INTEGER}},
      minTerm : {1},
      maxTerm : {{MAX_SAFE_INTEGER}},
      minCreditScore : {600, 750},
      perks : {{}, {"No prepayment penalty"}},
      active : {TRUE} ]

\* Annual rates in percent, chosen so that the monthly rate is 0, 1 or 2 and the
\* exact payments stay within the integers of the model checker.
RateValues == {Num(0), Num(1200), Num(2400)}

\* The ranges processRates stores for the feed's "Basic" and "Premium" products.
CreditRanges == {[min |-> 620, max |-> 850], [min |-> 740, max |-> 850]}

\* The calls made: amount and term as the caller sent them, creditScore possibly
\* omitted.
PipelineQueries ==
    [loanType : {"Mortgage"}, amount : {0, 100}, term : {0, 2},
     creditScore : {{}, {760}}, preferences : {{}}]

NoResult == [kind |-> "none"]

Init ==
    /\ catalog \in Catalogs(PipelineProducts, MaxProducts)
    /\ rates = <<>>
    /\ params = [loanType |-> "", amount |-> 0, term |-> 0, creditScore |-> {},
                 preferences |-> {}]
    /\ pc = "idle"
    /\ eligibleProducts = <<>>
    /\ idx = 0
    /\ analyzedProducts = <<>>
    /\ trace = <<>>
    /\ result = NoResult

\* One entry of processRates that found its product: the observation is saved.
ProcessRate ==
    /\ Len(rates) < MaxRates
    /\ \E i \in DOMAIN catalog, r \in RateValues, range \in CreditRanges,
          d \in (IF rates = <<>> THEN {1}
                 ELSE {rates[Len(rates)].date, rates[Len(rates)].date + 1}) :
          rates' = Append(rates, [id |-> Len(rates) + 1,
                                  loanProduct |-> catalog[i].id,
                                  date |-> d,
                                  rate |-> r,
                                  creditScoreRange |-> range])
    /\ UNCHANGED <<catalog, params, pc, eligibleProducts, idx, analyzedProducts,
                   trace, result>>

\* analyzeLoanOptions(q) up to its first rate lookup (lines 16-39), or to its
\* return when no product is eligible (lines 30-36).
AnalyzeCall(q) ==
    LET creditScore == CreditScoreOf(q)
        eligible == getEligibleProducts(catalog, q.loanType, q.amount, q.term, creditScore)
    IN  /\ pc = "idle"
        /\ params' = q
        /\ eligibleProducts' = eligible
        /\ IF Len(eligible) = 0
           THEN /\ result' =
                      [kind |-> "returned",
                       success |-> FALSE,
                       message |-> "No eligible loan products found",
                       alternatives |-> suggestAlternatives(catalog, q.loanType,
                                            q.amount, q.term, creditScore)]
                /\ trace' = <<"getEligibleProducts", "suggestAlternatives">>
                /\ pc' = "done"
                /\ idx' = idx
           ELSE /\ result' = result
                /\ trace' = <<"getEligibleProducts", "calculateMetrics">>
                /\ pc' = "metrics"
                /\ idx' = 1
        /\ UNCHANGED <<catalog, rates, analyzedProducts>>

AnalyzeLoanOptions == \E q \in PipelineQueries : AnalyzeCall(q)

\* The objects analyzeLoanOptions can return once calculateMetrics is through
\* (lines 41-57).
SuccessResults(analyzed, q) ==
    UNION {{[kind |-> "returned",
             success |-> TRUE,
             recommendations |-> rec,
             topOptions |-> Limit(ranked, 3),
             allOptions |-> ranked,
             educationalContent |-> getEducationalContent(q.loanType),
             insights |-> generateInsights(ranked, q)] :
               rec \in generateRecommendations(ranked, q)} :
           ranked \in rankProducts(analyzed, q.preferences)}

\* The loop body had it put the new entry first (unshift instead of push).
AfterLookupUnshift(analyzed, product, found, q) ==
    IF found = {} THEN {analyzed}
    ELSE {<<AnalyzedProduct(product, rateInfo, q.amount, q.term, service)>> \o analyzed :
            rateInfo \in found, service \in CustomerServiceDraws}

\* The analyzed products after the loop body ran for product with what the
\* lookup returned: unchanged when it returned null.
AfterLookup(analyzed, product, found, q) ==
    IF found = {} THEN {analyzed}
    ELSE {Append(analyzed, AnalyzedProduct(product, rateInfo, q.amount, q.term, service)) :
            rateInfo \in found, service \in CustomerServiceDraws}

\* A rate lookup of calculateMetrics returns, the loop body runs (lines 83-109);
\* after the last product the call runs on to its return (lines 41-57).
RateLookupReturns ==
    /\ pc = "metrics"
    /\ idx <= Len(eligibleProducts)
    /\ LET product == eligibleProducts[idx]
           found == getLatestRate(rates, product.id, DefaultLookupScore)
       IN  \E next \in AfterLookup(analyzedProducts, product, found, params) :
              /\ analyzedProducts' = next
              /\ idx' = idx + 1
              /\ IF idx < Len(eligibleProducts)
                 THEN /\ trace' = Append(trace, "getLatestRate")
                      /\ UNCHANGED <<pc, result>>
                 ELSE /\ trace' = trace \o <<"getLatestRate", "rankProducts",
                                             "generateRecommendations",
                                             "getEducationalContent", "generateInsights">>
                      /\ pc' = "done"
                      /\ result' \in SuccessResults(next, params)
    /\ UNCHANGED <<catalog, rates, params, eligibleProducts>>

\* The failing lookup had it deleted the product's observations on its way out.
RateLookupFailsDropsRates ==
    /\ pc = "metrics"
    /\ idx <= Len(eligibleProducts)
    /\ trace' = Append(trace, "getLatestRate")
    /\ pc' = "done"
    /\ result' = [kind |-> "rejected"]
    /\ rates' = SelectSeq(rates, LAMBDA obs : obs.loanProduct # eligibleProducts[idx].id)
    /\ UNCHANGED <<catalog, params, eligibleProducts, idx, analyzedProducts>>

\* A rate lookup rejects: nothing in calculateMetrics or analyzeLoanOptions
\* catches it, so the call rejects with the lookup's error.
RateLookupFails ==
    /\ pc = "metrics"
    /\ idx <= Len(eligibleProducts)
    /\ trace' = Append(trace, "getLatestRate")
    /\ pc' = "done"
    /\ result' = [kind |-> "rejected"]
    /\ UNCHANGED <<catalog, rates, params, eligibleProducts, idx, analyzedProducts>>

Next ==
    \/ ProcessRate
    \/ AnalyzeLoanOptions
    \/ RateLookupReturns
    \/ RateLookupFails

Spec == Init /\ [][Next]_vars

Returned == pc = "done" /\ result.kind = "returned"

Succeeded == Returned /\ result.success

ProductsOf(options) == {options[i].product : i \in DOMAIN options}

\* C2: the rate calculateMetrics uses for an eligible product is the most recent
\* observation of that product whose credit-score range contains the score the
\* caller passed to the analysis, and the product is dropped only when no
\* observation's range contains that score.
C2_RateIsLatestForCallersScore ==
    [][ (pc = "metrics" /\ idx' = idx + 1) =>
            LET product == eligibleProducts[idx]
                applicable == getLatestRate(rates, product.id, CreditScoreOf(params))
            IN  IF applicable = {}
                THEN analyzedProducts' = analyzedProducts
                ELSE /\ Len(analyzedProducts') = Len(analyzedProducts) + 1
                     /\ \E obs \in applicable :
                           LET used == analyzedProducts'[Len(analyzedProducts')]
                           IN  /\ used.product = product
                               /\ used.interestRate = obs.rate
                               /\ used.approvalLikelihood =
                                    assessApprovalLikelihood(product, obs.creditScoreRange)
      ]_vars

\* C3: a rate lookup that raises excludes only its product: the request still
\* completes, and its result holds every eligible product whose lookup returned
\* a rate.
C3_LookupFailureExcludesOnlyThatProduct ==
    (pc = "done" /\ Len(eligibleProducts) > 0) =>
        /\ result.kind = "returned"
        /\ result.success
        /\ ProductsOf(analyzedProducts) \subseteq ProductsOf(result.allOptions)

\* C4: with no eligible product the call does not raise: it runs the alternatives
\* search and returns {success: false, message, alternatives} without entering
\* metric calculation, ranking, recommendation or insight generation; with at
\* least one eligible product it returns success: true with recommendations,
\* topOptions, allOptions, educationalContent and insights.
C4_EmptyBranchElseSuccess ==
    pc = "done" =>
        IF Len(eligibleProducts) = 0
        THEN /\ result.kind = "returned"
             /\ ~result.success
             /\ DOMAIN result = {"kind", "success", "message", "alternatives"}
             /\ trace = <<"getEligibleProducts", "suggestAlternatives">>
        ELSE /\ result.kind = "returned"
             /\ result.success
             /\ DOMAIN result = {"kind", "success", "recommendations", "topOptions",
                                 "allOptions", "educationalContent", "insights"}

\* C6: a call with a non-positive amount or term returns a validation error
\* before the eligibility filter, the rate lookups or the amortization formula
\* run.
C6_NonPositiveInputRejectedFirst ==
    (pc # "idle" /\ (params.amount <= 0 \/ params.term <= 0)) =>
        /\ pc = "done"
        /\ result.kind = "validation_error"
        /\ trace = <<>>

InUnitInterval(x) == FLe(Num(0), x) /\ FLe(x, Num(1))

\* C8: the list rankProducts returns is a permutation of the analyzed products
\* and is ordered by totalScore descending: each product's totalScore is >= the
\* next one's, and allOptions[0] has the maximum totalScore.
C8_RankedIsSortedPermutation ==
    Succeeded =>
        LET ranked == result.allOptions
        IN  /\ Len(ranked) = Len(analyzedProducts)
            /\ ProductsOf(ranked) = ProductsOf(analyzedProducts)
            /\ \A i \in 1..(Len(ranked) - 1) :
                  FLe(ranked[i + 1].totalScore, ranked[i].totalScore)
            /\ \A i \in DOMAIN ranked : FLe(ranked[i].totalScore, ranked[1].totalScore)

\* C9: for every product in allOptions of a successful analysis each of the five
\* per-metric scores and the totalScore lies in [0,1], and approvalLikelihood is
\* never negative and never undefined.
C9_ScoresInUnitInterval ==
    Succeeded =>
        \A i \in DOMAIN result.allOptions :
            LET p == result.allOptions[i]
            IN  /\ \A k \in Range(ScoreKeys) : InUnitInterval(p.scores[k])
                /\ InUnitInterval(p.totalScore)
                /\ InUnitInterval(p.approvalLikelihood)

-----------------------------------------------------------------------------
(* The amortization formula on its own, in its three copies: the one of    *)
(* calculateMetrics and the two of the frontend (LoanCalculator's          *)
(* calculateLoan, LoanComparison's effect), which take the term in years.  *)

\* Number.prototype.toFixed(2): the value rounded to cents; NaN and the
\* Infinities print as themselves.
ToFixed2(x) ==
    IF ~IsFinite(x) THEN x
    ELSE LET n == Abs(x[1])
             whole == n \div x[2]
             part == (n % x[2]) * 100
             cents == part \div x[2] + (IF 2 * (part % x[2]) >= x[2] THEN 1 ELSE 0)
         IN  Frac(Sign(x[1]) * (whole * 100 + cents), 100)

\* calculateLoan of LoanCalculator.jsx: the three state values it sets.
calculateLoan(loanAmount, interestRate, loanTerm) ==
    LET monthlyRate == FDiv(FDiv(interestRate, Num(100)), Num(12))
        totalMonths == loanTerm * 12
        growth == MathPow(FAdd(Num(1), monthlyRate), totalMonths)
        monthlyPaymentAmount ==
            FDiv(FMul(FMul(Num(loanAmount), monthlyRate), growth), FSub(growth, Num(1)))
        totalPaymentAmount == FMul(monthlyPaymentAmount, Num(totalMonths))
        totalInterestAmount == FSub(totalPaymentAmount, Num(loanAmount))
    IN  [monthlyPayment |-> ToFixed2(monthlyPaymentAmount),
         totalPayment |-> ToFixed2(totalPaymentAmount),
         totalInterest |-> ToFixed2(totalInterestAmount)]

\* One row of comparisonResults of LoanComparison.jsx.
ComparisonRow(loanAmount, rate, loanTerm) ==
    LET monthlyRate == FDiv(FDiv(rate, Num(100)), Num(12))
        totalMonths == loanTerm * 12
        growth == MathPow(FAdd(Num(1), monthlyRate), totalMonths)
        monthlyPayment ==
            FDiv(FMul(FMul(Num(loanAmount), monthlyRate), growth), FSub(growth, Num(1)))
        totalPayment == FMul(monthlyPayment, Num(totalMonths))
    IN  [monthlyPayment |-> monthlyPayment,
         totalPayment |-> totalPayment,
         totalInterest |-> FSub(totalPayment, Num(loanAmount))]

\* The principals, the terms in months (backend) and in years (frontend).
AmortAmounts == {100 * k : k \in 1..10}
AmortMonths == {1, 2, 3}
AmortYears == {1}

InitAmort ==
    /\ catalog = <<>>
    /\ rates = <<>>
    /\ params \in [amount : AmortAmounts, rate : RateValues, term : AmortMonths,
                   years : AmortYears]
    /\ pc = "idle"
    /\ eligibleProducts = <<>>
    /\ idx = 0
    /\ analyzedProducts = <<>>
    /\ trace = <<>>
    /\ result = NoResult

Computed(copy, months, r) ==
    /\ pc = "idle"
    /\ pc' = "computed"
    /\ result' = [copy |-> copy, months |-> months, monthlyPayment |-> r.monthlyPayment,
                  totalPayment |-> r.totalPayment, totalInterest |-> r.totalInterest]
    /\ UNCHANGED <<catalog, rates, params, eligibleProducts, idx, analyzedProducts, trace>>

MetricsFormula ==
    Computed("calculateMetrics", params.term,
             Amortization(Num(params.amount), params.rate, params.term))

CalculatorFormula ==
    Computed("calculateLoan", params.years * 12,
             calculateLoan(params.amount, params.rate, params.years))

ComparisonFormula ==
    Computed("LoanComparison", params.years * 12,
             ComparisonRow(params.amount, params.rate, params.years))

NextAmort ==
    \/ MetricsFormula
    \/ CalculatorFormula
    \/ ComparisonFormula

SpecAmort == InitAmort /\ [][NextAmort]_vars

\* C5: for a principal P > 0 and a term N > 0, at annual rate 0 each copy of the
\* amortization computation yields monthly payment P/N, total payment P and
\* total interest 0, and never NaN.
C5_ZeroRatePaysPrincipalOverTerm ==
    (pc = "computed" /\ params.rate = Num(0)) =>
        /\ ~IsNaN(result.monthlyPayment)
        /\ result.monthlyPayment = ToFixed2(Frac(params.amount, result.months))
           \/ result.monthlyPayment = Frac(params.amount, result.months)
        /\ result.totalPayment = Num(params.amount)
        /\ result.totalInterest = Num(0)

-----------------------------------------------------------------------------
(* The eligibility query on its own: every catalog of up to MaxCatalog     *)
(* documents of the schema, every query of EligQueries.                    *)

EligQueries ==
    [loanType : {"Mortgage"}, amount : {0, 100, 200}, term : {2, 3},
     creditScore : {{550}, {650}}, preferences : {{}}]

InitElig ==
    /\ catalog \in Catalogs(LoanProductSchema, MaxCatalog)
    /\ rates = <<>>
    /\ params \in EligQueries
    /\ pc = "idle"
    /\ eligibleProducts = <<>>
    /\ idx = 0
    /\ analyzedProducts = <<>>
    /\ trace = <<>>
    /\ result = NoResult

EligibilityQuery ==
    /\ pc = "idle"
    /\ eligibleProducts' = getEligibleProducts(catalog, params.loanType, params.amount,
                                               params.term, CreditScoreOf(params))
    /\ pc' = "filtered"
    /\ UNCHANGED <<catalog, rates, params, idx, analyzedProducts, trace, result>>

NextElig == EligibilityQuery

SpecElig == InitElig /\ [][NextElig]_vars

\* C1: an active product of the requested type whose lower bounds admit the query
\* is returned also when its maxAmount or its maxTerm is absent (an absent upper
\* bound is unbounded).
C1_AbsentUpperBoundIsUnbounded ==
    pc = "filtered" =>
        \A i \in DOMAIN catalog :
            LET p == catalog[i] IN
            ( /\ p.active
              /\ p.type = params.loanType
              /\ p.minAmount <= params.amount
              /\ p.minTerm <= params.term
              /\ p.minCreditScore <= CreditScoreOf(params)
              /\ (p.maxAmount = {} \/ \E x \in p.maxAmount : params.amount <= x)
              /\ (p.maxTerm = {} \/ \E x \in p.maxTerm : params.term <= x) )
            => p \in Range(eligibleProducts)

\* What holds of a query's answer: documents of the catalog, in catalog order,
\* each passing every clause of the filter.
ReturnedSatisfyAllClauses ==
    pc = "filtered" =>
        /\ IsSubSeq(eligibleProducts, catalog)
        /\ \A j \in DOMAIN eligibleProducts :
              LET p == eligibleProducts[j] IN
              /\ p.active
              /\ p.type = params.loanType
              /\ p.minAmount <= params.amount
              /\ \E x \in p.maxAmount : params.amount <= x
              /\ p.minTerm <= params.term
              /\ \E x \in p.maxTerm : params.term <= x
              /\ p.minCreditScore <= CreditScoreOf(params)

\* C10: the products getEligibleProducts returns are documents of the catalog, in
\* catalog order, each active, of the requested type, with
\* minAmount <= amount <= maxAmount, minTerm <= term <= maxTerm and
\* minCreditScore <= creditScore; the query leaves the catalog as it was.
C10_EligibleIsPureSubset ==
    [] ReturnedSatisfyAllClauses /\ [][catalog' = catalog]_vars

\* A query that returned some of the catalog's products and left others out.
C10_Witness ==
    /\ pc = "filtered"
    /\ Len(eligibleProducts) >= 1
    /\ Len(eligibleProducts) < Len(catalog)

-----------------------------------------------------------------------------
(* rankProducts on its own: every combination of the five prioritize flags *)
(* against lists of up to MaxCandidates analyzed products.                 *)

MaxCandidates == 2

\* Analyzed products as calculateMetrics builds them, for a loan of 100 over 2
\* months.
RankCandidates ==
    {AnalyzedProduct(product, [rate |-> r, creditScoreRange |-> range], 100, 2, service) :
        product \in {p \in PipelineProducts : p.minCreditScore = 600 /\ p.perks = {}},
        r \in RateValues \ {Num(0)},
        range \in {[min |-> 740, max |-> 850]},
        service \in {Frac(6, 10)}}

InitRank ==
    /\ catalog = <<>>
    /\ rates = <<>>
    /\ params \in [loanType : {"Mortgage"}, amount : {100}, term : {2},
                   creditScore : {{}}, preferences : SUBSET PreferenceFlags]
    /\ pc = "ranking"
    /\ eligibleProducts = <<>>
    /\ idx = 0
    /\ analyzedProducts \in UNION {[1..n -> RankCandidates] : n \in 1..MaxCandidates}
    /\ trace = <<>>
    /\ result = NoResult

\* rankProducts(analyzedProducts, preferences): the weights it applied, as exact
\* fractions and as the binary64 numbers the code holds, and the list it returns.
RankProducts ==
    /\ pc = "ranking"
    /\ pc' = "ranked"
    /\ \E ranked \in rankProducts(analyzedProducts, params.preferences) :
          result' = [kind |-> "ranked",
                     weights |-> Weights(params.preferences),
                     weights64 |-> Weights64(params.preferences),
                     ranked |-> ranked]
    /\ UNCHANGED <<catalog, rates, params, eligibleProducts, idx, analyzedProducts, trace>>

NextRank == RankProducts

SpecRank == InitRank /\ [][NextRank]_vars

\* Whether the binary64 number s is within 2^-52 of 1.
NearOne64(s) ==
    \/ s = One64
    \/ s = [m |-> BigAdd(Two52, <<0, 1>>), e |-> 0 - 52]
    \/ s.e = 0 - 53 /\ ~BigLt(s.m, BigSub(Two53, <<0, 2>>))

\* Each applied weight is its raw weight divided by the sum of the five raw
\* weights, and is strictly positive.
WeightsAreRawOverSum ==
    LET raw == RawWeights(params.preferences)
        raw64 == RawWeights64(params.preferences)
    IN  \A k \in Range(ScoreKeys) :
            /\ result.weights[k] = FDiv(raw[k], SumOver(raw, ScoreKeys))
            /\ FLt(Num(0), result.weights[k])
            /\ result.weights64[k] = F64Div(raw64[k], SumOver64(raw64, ScoreKeys))
            /\ BigLt(BigZero, result.weights64[k].m)

\* C7 as stated: for each of the 32 flag combinations the applied weights are the
\* raw weights each divided by their sum, each strictly positive, and the applied
\* weights sum to exactly 1.
C7_WeightsSumToExactlyOne ==
    pc = "ranked" =>
        /\ WeightsAreRawOverSum
        /\ SumOver64(result.weights64, ScoreKeys) = One64

\* C7, amended: for each of the 32 flag combinations the applied weights are the
\* raw weights each divided by their sum and each strictly positive; their sum is
\* 1 in exact arithmetic, and as the code computes it in binary64 it is within
\* 2^-52 of 1.
C7_WeightsSumToOneWithinRounding ==
    pc = "ranked" =>
        /\ WeightsAreRawOverSum
        /\ SumOver(result.weights, ScoreKeys) = Num(1)
        /\ NearOne64(SumOver64(result.weights64, ScoreKeys))

\* The default weights were applied and their binary64 sum is not 1.
C7_Witness ==
    /\ pc = "ranked"
    /\ params.preferences = {}
    /\ SumOver64(result.weights64, ScoreKeys) # One64

-----------------------------------------------------------------------------
(* The empty-result branch: analyzeLoanOptions against catalogs of         *)
(* Personal products, some of which miss the query on the credit score or  *)
(* on the term alone; the rate store is empty.                             *)

MaxAltCatalog == 3

AltProducts ==
    [ id : {0},
      type : {"Personal"},
      minAmount : {0},
      maxAmount : {{MAX_SAFE_INTEGER}},
      minTerm : {1, 18},
      maxTerm : {{20}, {60}},
      minCreditScore : {600, 720},
      perks : {{}},
      active : {TRUE} ]

AltQueries ==
    [loanType : {"Personal"}, amount : {100, 25000}, term : {12},
     creditScore : {{}, {620}}, preferences : {{}}]

InitAlt ==
    /\ catalog \in Catalogs(AltProducts, MaxAltCatalog)
    /\ rates = <<>>
    /\ params = [loanType |-> "", amount |-> 0, term |-> 0, creditScore |-> {},
                 preferences |-> {}]
    /\ pc = "idle"
    /\ eligibleProducts = <<>>
    /\ idx = 0
    /\ analyzedProducts = <<>>
    /\ trace = <<>>
    /\ result = NoResult

AnalyzeAlt == \E q \in AltQueries : AnalyzeCall(q)

NextAlt ==
    \/ AnalyzeAlt
    \/ RateLookupReturns
    \/ RateLookupFails

SpecAlt == InitAlt /\ [][NextAlt]_vars

\* The call returned through the empty-result branch.
ReturnedEmpty == Returned /\ ~result.success

\* The products the entries of alternatives carry.
AlternativeProducts ==
    UNION {Range(result.alternatives[i].products) :
             i \in {j \in DOMAIN result.alternatives :
                      "products" \in DOMAIN result.alternatives[j]}}

PassesAmountClauses(p) ==
    /\ p.active
    /\ p.type = params.loanType
    /\ p.minAmount <= params.amount
    /\ \E x \in p.maxAmount : params.amount <= x

PassesTermClause(p) == p.minTerm <= params.term /\ \E x \in p.maxTerm : params.term <= x

PassesCreditClause(p) == p.minCreditScore <= CreditScoreOf(params)

\* C11: with no eligible product, a product that fails only the credit-score
\* clause with minCreditScore within 30 points of the requested score, and a product
\* that fails only the term clause with term bounds within 12 months of the
\* requested term, is among the alternatives returned.
C11_AlternativesRelaxCreditAndTerm ==
    ReturnedEmpty =>
        \A i \in DOMAIN catalog :
            LET p == catalog[i] IN
            /\ ( /\ PassesAmountClauses(p) /\ PassesTermClause(p) /\ ~PassesCreditClause(p)
                 /\ p.minCreditScore <= CreditScoreOf(params) + 30 )
               => p \in AlternativeProducts
            /\ ( /\ PassesAmountClauses(p) /\ PassesCreditClause(p) /\ ~PassesTermClause(p)
                 /\ p.minTerm <= params.term + 12
                 /\ \E x \in p.maxTerm : params.term - 12 <= x )
               => p \in AlternativeProducts

\* Whether entry carries what the relaxed catalog query of its type returned: one
\* or two documents of the catalog, in catalog order, each matching that query.
CarriesQueryResult(entry) ==
    /\ "products" \in DOMAIN entry
    /\ Len(entry.products) \in {1, 2}
    /\ IsSubSeq(entry.products, catalog)
    /\ \A j \in DOMAIN entry.products :
          LET p == entry.products[j] IN
          \/ /\ entry.type = "lower_credit_options"
             /\ LowerCreditFilter(p, params.loanType, params.amount, params.term,
                                  CreditScoreOf(params))
          \/ /\ entry.type = "different_term_options"
             /\ DifferentTermFilter(p, params.loanType, params.amount, params.term,
                                    CreditScoreOf(params))

\* Some document of the catalog matches one of the two relaxed queries.
RelaxedQueryMatches ==
    \E i \in DOMAIN catalog :
        \/ LowerCreditFilter(catalog[i], params.loanType, params.amount, params.term,
                             CreditScoreOf(params))
        \/ DifferentTermFilter(catalog[i], params.loanType, params.amount, params.term,
                               CreditScoreOf(params))

\* C12 as stated: a query whose eligible set is empty gets success = false, its
\* alternatives are non-empty only if a relaxed catalog query returned a match, and
\* every entry of alternatives carries the products of such a query, at most 2.
C12_AlternativesOnlyFromRelaxedQueries ==
    (pc = "done" /\ Len(eligibleProducts) = 0) =>
        /\ ReturnedEmpty
        /\ result.alternatives # <<>> => RelaxedQueryMatches
        /\ \A i \in DOMAIN result.alternatives : CarriesQueryResult(result.alternatives[i])

\* C12, amended: a query whose eligible set is empty gets success = false; its
\* alternatives are non-empty only if a relaxed catalog query returned a match or
\* the request is a Personal loan of 25000 or more, which adds a
\* different_loan_type entry that carries a description and no products; every
\* other entry carries the products of a relaxed query, at most 2.
C12_AlternativesFromQueriesOrLoanType ==
    (pc = "done" /\ Len(eligibleProducts) = 0) =>
        /\ ReturnedEmpty
        /\ result.alternatives # <<>> =>
              \/ RelaxedQueryMatches
              \/ params.loanType = "Personal" /\ params.amount >= 25000
        /\ \A i \in DOMAIN result.alternatives :
              LET entry == result.alternatives[i] IN
              IF entry.type = "different_loan_type"
              THEN /\ "products" \notin DOMAIN entry
                   /\ params.loanType = "Personal" /\ params.amount >= 25000
                   /\ i = Len(result.alternatives)
              ELSE CarriesQueryResult(entry)

\* An empty-result answer with a two-product entry, cut from three matches, and
\* the loan-type entry.
C12_Witness ==
    /\ ReturnedEmpty
    /\ Len(catalog) = 3
    /\ \A i \in DOMAIN catalog :
          DifferentTermFilter(catalog[i], params.loanType, params.amount, params.term,
                              CreditScoreOf(params))
    /\ \E i \in DOMAIN result.alternatives :
          /\ "products" \in DOMAIN result.alternatives[i]
          /\ Len(result.alternatives[i].products) = 2
    /\ \E i \in DOMAIN result.alternatives :
          result.alternatives[i].type = "different_loan_type"

-----------------------------------------------------------------------------
(* Ranking and recommendation on their own (lines 41-45 of                 *)
(* analyzeLoanOptions): every combination of the prioritize flags against  *)
(* lists of up to MaxRanked analyzed products of distinct catalog          *)
(* documents, for an amount of 0 or 100 over 2 months.                     *)

MaxRanked == 3

\* Annual rates with monthly rates 0, 1, 2 and 10.
OrderRates == {Num(0), Num(1200), Num(2400), Num(12000)}

OrderPerks == {{}, {"No prepayment penalty", "Flexible payment options"}}

\* The analyzed product of the i-th catalog document, at rate r with perks.
OrderCandidate(i, r, perks, amount) ==
    AnalyzedProduct([id |-> i, type |-> "Mortgage", minAmount |-> 0,
                     maxAmount |-> {MAX_SAFE_INTEGER}, minTerm |-> 1,
                     maxTerm |-> {MAX_SAFE_INTEGER}, minCreditScore |-> 600,
                     perks |-> perks, active |-> TRUE],
                    [rate |-> r, creditScoreRange |-> [min |-> 620, max |-> 850]],
                    amount, 2, Frac(6, 10))

OrderLists(amount) ==
    UNION {{[i \in 1..n |-> OrderCandidate(i, c[i][1], c[i][2], amount)] :
              c \in [1..n -> OrderRates \X OrderPerks]} : n \in 1..MaxRanked}

InitOrder ==
    /\ catalog = <<>>
    /\ rates = <<>>
    /\ params \in [loanType : {"Mortgage"}, amount : {0, 100}, term : {2},
                   creditScore : {{}}, preferences : SUBSET PreferenceFlags]
    /\ pc = "ranking"
    /\ eligibleProducts = <<>>
    /\ idx = 0
    /\ analyzedProducts \in OrderLists(params.amount)
    /\ trace = <<>>
    /\ result = NoResult

\* rankProducts(analyzedProducts, preferences), then
\* generateRecommendations(rankedProducts, params).
RankAndRecommend ==
    /\ pc = "ranking"
    /\ pc' = "recommended"
    /\ \E ranked \in rankProducts(analyzedProducts, params.preferences) :
       \E rec \in generateRecommendations(ranked, params) :
          result' = [kind |-> "recommended", ranked |-> ranked, recommendations |-> rec]
    /\ UNCHANGED <<catalog, rates, params, eligibleProducts, idx, analyzedProducts, trace>>

NextOrder == RankAndRecommend

SpecOrder == InitOrder /\ [][NextOrder]_vars

\* A dominates B on every weighted metric.
Dominates(a, b) ==
    /\ FLe(a.interestRate, b.interestRate)
    /\ FLe(a.monthlyPayment, b.monthlyPayment)
    /\ FLe(b.customerService, a.customerService)
    /\ FLe(b.flexibility, a.flexibility)
    /\ FLe(b.approvalLikelihood, a.approvalLikelihood)

\* C13: in one ranking pass, a candidate A that dominates a candidate B on every
\* weighted metric has totalScore >= B's and is not placed after B unless their
\* total scores are equal, for every flag combination and every candidate set.
C13_DominantRanksNoLower ==
    pc = "recommended" =>
        \A i, j \in DOMAIN result.ranked :
            LET a == result.ranked[i]
                b == result.ranked[j]
            IN  (i # j /\ Dominates(a, b)) =>
                    /\ FLe(b.totalScore, a.totalScore)
                    /\ i > j => FEq(a.totalScore, b.totalScore)

CostMetrics == {"interestRate", "monthlyPayment"}

\* Every candidate of the pass has the same value for the metric.
AllSame(key) ==
    \A i, j \in DOMAIN result.ranked : result.ranked[i][key] = result.ranked[j][key]

\* What the metrics other than key contribute to p's total score.
OtherTerms(p, key) ==
    WeightedSum(p.scores, Weights(params.preferences),
                SelectSeq(ScoreKeys, LAMBDA k : k # key))

\* C14: when every candidate of a ranking pass has the same value for a cost
\* metric (a single candidate included), that metric's score is 0.5 for every
\* candidate and contributes 0.5 times its normalized weight to each total score;
\* otherwise the candidate holding the minimum scores 1 and the one holding the
\* maximum scores 0.
C14_DegenerateMetricScoresHalf ==
    pc = "recommended" =>
        \A key \in CostMetrics :
            \A i \in DOMAIN result.ranked :
                LET p == result.ranked[i] IN
                IF AllSame(key)
                THEN /\ p.scores[key] = Frac(1, 2)
                     /\ p.totalScore =
                           FAdd(OtherTerms(p, key),
                                FMul(Frac(1, 2), Weights(params.preferences)[key]))
                ELSE /\ (\A j \in DOMAIN result.ranked : FLe(p[key], result.ranked[j][key]))
                           => p.scores[key] = Num(1)
                     /\ (\A j \in DOMAIN result.ranked : FLe(result.ranked[j][key], p[key]))
                           => p.scores[key] = Num(0)

\* C15: in a pass with a non-empty ranked list and positive rates,
\* recommendations.lowestRate and recommendations.lowestPayment are the same
\* product, and the narrative has no lowest-monthly-payment sentence.
C15_LowestRateIsLowestPayment ==
    ( /\ pc = "recommended"
      /\ \A i \in DOMAIN result.ranked : FLt(Num(0), result.ranked[i].interestRate) )
    => /\ result.recommendations.lowestRate = result.recommendations.lowestPayment
       /\ \A k \in DOMAIN result.recommendations.text :
             result.recommendations.text[k] # "lowest_payment"

\* Whether the narrative has the sentence.
Says(sentence) ==
    \E k \in DOMAIN result.recommendations.text : result.recommendations.text[k] = sentence

\* p is a candidate of the pass whose value for key is the minimum over all.
HoldsMinimum(p, key) ==
    /\ p \in Range(result.ranked)
    /\ \A j \in DOMAIN result.ranked : FLe(p[key], result.ranked[j][key])

\* C17: on a non-empty ranked list generateRecommendations returns bestOverall =
\* the first product, lowestRate = a product of minimum interest rate,
\* lowestPayment = a product of minimum monthly payment; the narrative has the
\* lowest-rate sentence exactly when lowestRate is not bestOverall and the
\* lowest-payment sentence exactly when lowestPayment is neither bestOverall nor
\* lowestRate; the ranked list is left in its order.
C17_RecommendationsPickMinima ==
    pc = "recommended" =>
        LET rec == result.recommendations IN
        /\ rec.bestOverall = result.ranked[1]
        /\ HoldsMinimum(rec.lowestRate, "interestRate")
        /\ HoldsMinimum(rec.lowestPayment, "monthlyPayment")
        /\ Says("lowest_rate") <=> rec.lowestRate # rec.bestOverall
        /\ Says("lowest_payment") <=>
              (rec.lowestPayment # rec.bestOverall /\ rec.lowestPayment # rec.lowestRate)
        /\ result.ranked \in rankProducts(analyzedProducts, params.preferences)

-----------------------------------------------------------------------------
(* Two analyzeLoanOptions calls in flight against one data source, cut at  *)
(* their suspension points (the catalog queries, each rate lookup).  Every *)
(* variable of a call is a local of that call: params, pc,                 *)
(* eligibleProducts, idx, analyzedProducts, result are here indexed by the *)
(* call; trace keeps, per call, the customer-service draws it made, and    *)
(* the order in which the calls took their steps.                          *)

Calls == {1, 2}

TwoQueries ==
    [loanType : {"Mortgage"}, amount : {100}, term : {2},
     creditScore : {{}, {760}}, preferences : {{}}]

\* The rate stores: up to MaxRates observations of the catalog's products.
TwoStores(cat) ==
    UNION {{[i \in 1..n |-> [id |-> i, loanProduct |-> c[i][1], date |-> i, rate |-> c[i][2],
                             creditScoreRange |-> [min |-> 620, max |-> 850]]] :
              c \in [1..n -> {cat[k].id : k \in DOMAIN cat} \X {Num(1200), Num(2400)}]} :
           n \in 0..MaxRates}

InitTwo ==
    /\ catalog \in Catalogs({p \in PipelineProducts : p.perks = {}}, MaxProducts)
    /\ rates \in TwoStores(catalog)
    /\ params = [c \in Calls |-> [loanType |-> "", amount |-> 0, term |-> 0,
                                  creditScore |-> {}, preferences |-> {}]]
    /\ pc = [c \in Calls |-> "idle"]
    /\ eligibleProducts = [c \in Calls |-> <<>>]
    /\ idx = [c \in Calls |-> 0]
    /\ analyzedProducts = [c \in Calls |-> <<>>]
    /\ trace = [draws |-> [c \in Calls |-> <<>>], order |-> <<>>]
    /\ result = [c \in Calls |-> NoResult]

\* The array had it been a field of the service, shared by the calls.
ArrayShared(c) == 1

\* The analyzedProducts array the call c pushes to: the one its own
\* calculateMetrics created (line 81).
ArrayOf(c) == c

\* What analyzeLoanOptions returns when no product is eligible (lines 30-36).
EmptyResult(q) ==
    [kind |-> "returned",
     success |-> FALSE,
     message |-> "No eligible loan products found",
     alternatives |-> suggestAlternatives(catalog, q.loanType, q.amount, q.term,
                                          CreditScoreOf(q))]

Logged(c, draws) ==
    [draws |-> [trace.draws EXCEPT ![c] = trace.draws[c] \o draws],
     order |-> Append(trace.order, c)]

\* Call c up to its first rate lookup, or to its return when no product is
\* eligible.
CallStarts(c) ==
    /\ pc[c] = "idle"
    /\ \E q \in TwoQueries :
          LET eligible == getEligibleProducts(catalog, q.loanType, q.amount, q.term,
                                              CreditScoreOf(q))
          IN  /\ params' = [params EXCEPT ![c] = q]
              /\ eligibleProducts' = [eligibleProducts EXCEPT ![c] = eligible]
              /\ IF Len(eligible) = 0
                 THEN /\ result' = [result EXCEPT ![c] = EmptyResult(q)]
                      /\ pc' = [pc EXCEPT ![c] = "done"]
                      /\ UNCHANGED <<idx, analyzedProducts>>
                 ELSE /\ pc' = [pc EXCEPT ![c] = "metrics"]
                      /\ idx' = [idx EXCEPT ![c] = 1]
                      /\ analyzedProducts' = [analyzedProducts EXCEPT ![ArrayOf(c)] = <<>>]
                      /\ UNCHANGED result
    /\ trace' = Logged(c, <<>>)
    /\ UNCHANGED <<catalog, rates>>

\* A rate lookup of call c returns and the loop body runs; after the last product
\* the call runs on to its return.
CallLookupReturns(c) ==
    /\ pc[c] = "metrics"
    /\ idx[c] <= Len(eligibleProducts[c])
    /\ LET product == eligibleProducts[c][idx[c]]
           found == getLatestRate(rates, product.id, DefaultLookupScore)
           array == analyzedProducts[ArrayOf(c)]
       IN  \E service \in (IF found = {} THEN {Frac(6, 10)} ELSE CustomerServiceDraws) :
           \E next \in (IF found = {} THEN {array}
                        ELSE {Append(array, [owner |-> c,
                                             item |-> AnalyzedProduct(product, rateInfo,
                                                          params[c].amount, params[c].term,
                                                          service)]) : rateInfo \in found}) :
              /\ analyzedProducts' = [analyzedProducts EXCEPT ![ArrayOf(c)] = next]
              /\ trace' = Logged(c, IF found = {} THEN <<>> ELSE <<service>>)
              /\ idx' = [idx EXCEPT ![c] = idx[c] + 1]
              /\ IF idx[c] < Len(eligibleProducts[c])
                 THEN UNCHANGED <<pc, result>>
                 ELSE /\ pc' = [pc EXCEPT ![c] = "done"]
                      /\ \E r \in SuccessResults([i \in DOMAIN next |-> next[i].item],
                                                 params[c]) :
                            result' = [result EXCEPT ![c] = r]
    /\ UNCHANGED <<catalog, rates, params, eligibleProducts>>

NextTwo ==
    \E c \in Calls :
        \/ CallStarts(c)
        \/ CallLookupReturns(c)

SpecTwo == InitTwo /\ [][NextTwo]_vars

\* The analyzed products calculateMetrics returns for the eligible list when run
\* on its own against the store, its k-th push taking the k-th draw.
RECURSIVE AloneAnalyzed(_, _, _)
AloneAnalyzed(eligible, q, draws) ==
    IF eligible = <<>> THEN {<<>>}
    ELSE LET found == getLatestRate(rates, Head(eligible).id, DefaultLookupScore)
         IN  IF found = {} THEN AloneAnalyzed(Tail(eligible), q, draws)
             ELSE IF draws = <<>> THEN {}
             ELSE {<<AnalyzedProduct(Head(eligible), rateInfo, q.amount, q.term,
                                     Head(draws))>> \o rest :
                     rateInfo \in found,
                     rest \in AloneAnalyzed(Tail(eligible), q, Tail(draws))}

\* The results analyzeLoanOptions(q) can return when run on its own.
AloneResults(q, draws) ==
    LET eligible == getEligibleProducts(catalog, q.loanType, q.amount, q.term,
                                        CreditScoreOf(q))
    IN  IF Len(eligible) = 0 THEN {EmptyResult(q)}
        ELSE UNION {SuccessResults(analyzed, q) : analyzed \in AloneAnalyzed(eligible, q, draws)}

\* An option of a result, without the fields rankProducts added.
AsAnalyzed(option) ==
    [k \in DOMAIN option \ {"scores", "totalScore"} |-> option[k]]

\* C16: of two analyzeLoanOptions calls interleaved at their suspension points,
\* each returns the result it would return run alone against the same data
\* source with the same customer-service draws, and every product of its result
\* was built by the call itself.
C16_InterleavedCallsAreIndependent ==
    \A c \in Calls :
        pc[c] = "done" =>
            /\ result[c] \in AloneResults(params[c], trace.draws[c])
            /\ result[c].success =>
                  \A i \in DOMAIN result[c].allOptions :
                      \E j \in DOMAIN analyzedProducts[c] :
                          /\ analyzedProducts[c][j].owner = c
                          /\ analyzedProducts[c][j].item = AsAnalyzed(result[c].allOptions[i])

\* Both calls returned two options each, call 2 having taken steps between two
\* steps of call 1.
C16_Witness ==
    /\ \A c \in Calls : pc[c] = "done" /\ result[c].success
                        /\ Len(result[c].allOptions) = 2
    /\ params[1] # params[2]
    /\ \E i, j, k \in DOMAIN trace.order :
          i < j /\ j < k /\ trace.order[i] = 1 /\ trace.order[j] = 2 /\ trace.order[k] = 1

-----------------------------------------------------------------------------
(* calculateMetrics within the pipeline (Spec).                            *)

\* The products of the analyzed entries, in their order.
AnalyzedOrder == [i \in DOMAIN analyzedProducts |-> analyzedProducts[i].product]

\* The analyzed products are a subsequence of the eligible products looked up so
\* far.
AnalyzedFollowEligible ==
    pc \in {"metrics", "done"} /\ Len(eligibleProducts) > 0 =>
        /\ idx \in 1..(Len(eligibleProducts) + 1)
        /\ IsSubSeq(AnalyzedOrder, SubSeq(eligibleProducts, 1, idx - 1))

\* A lookup step takes the next product of the eligible list; a lookup that
\* returns no observation leaves the analyzed products as they were and raises
\* nothing, one that returns an observation appends that product's entry.
LookupStepInOrder ==
    (pc = "metrics" /\ idx' # idx) =>
        LET product == eligibleProducts[idx]
            found == getLatestRate(rates, product.id, DefaultLookupScore)
        IN  /\ idx' = idx + 1
            /\ IF found = {}
               THEN /\ analyzedProducts' = analyzedProducts
                    /\ result'.kind # "rejected"
               ELSE /\ Len(analyzedProducts') = Len(analyzedProducts) + 1
                    /\ SubSeq(analyzedProducts', 1, Len(analyzedProducts)) = analyzedProducts
                    /\ analyzedProducts'[Len(analyzedProducts')].product = product

\* C18: calculateMetrics looks the rates up one at a time in the order of the
\* eligible list, skips a product whose lookup returns no observation without an
\* error, and returns the analyzed products as a subsequence of the eligible list
\* in the same order, one entry per product that had a rate.
C18_LookupsSequentialInEligibleOrder ==
    [] AnalyzedFollowEligible /\ [][LookupStepInOrder]_vars

\* A call returned whose first eligible product had no rate and whose second had.
C18_Witness ==
    /\ Succeeded
    /\ Len(eligibleProducts) = 2
    /\ Len(analyzedProducts) = 1
    /\ analyzedProducts[1].product = eligibleProducts[2]

\* The variables an analyzeLoanOptions call writes.
callVars == <<params, pc, eligibleProducts, idx, analyzedProducts, trace, result>>

\* C19: the analysis pipeline is read-only on shared storage: every step of an
\* analyzeLoanOptions call, successful or not, leaves the loan products and the
\* rate observations of the store as they were.
C19_AnalysisLeavesStoreUnchanged ==
    [][callVars' # callVars => (catalog' = catalog /\ rates' = rates)]_vars

\* A call that returned options from a store holding observations.
C19_Witness ==
    /\ Succeeded
    /\ Len(rates) >= 1
    /\ Len(result.allOptions) >= 1

-----------------------------------------------------------------------------
(* processRates: the ingest of one fetched batch (rate-tracker-service.js    *)
(* lines 75-119).                                                            *)

MaxResults == 2
MaxData == 2

\* The loan products of the ingest: processRates reads their name, type and _id.
\* The _id of a document is its position in the collection.
IngestCatalogs ==
    UNION {{[i \in 1..n |-> [id |-> i, name |-> f[i].name, type |-> f[i].type]] :
                f \in [1..n -> [name : {"Basic", "Premium"}, type : LoanTypes]]} :
           n \in 0..MaxCatalog}

\* One element of a result's data, as getMockRates builds it (lines 208-215);
\* minCreditScore may be missing. raises is not a field of the entry: it says
\* whether findOne or save throws while this entry is processed.
RateEntries ==
    [productName : {"Basic", "Premium"}, loanType : {"Mortgage"},
     interestRate : {Num(1200)}, minCreditScore : {{}, {740}}, raises : BOOLEAN]

\* The object fetchLatestRates returns (lines 66-70): one result per enabled
\* source, each with the time it was fetched.
FetchedRates ==
    UNION {{[results |-> [i \in 1..n |-> [data |-> d[i], timestamp |-> i + 1]]] :
                d \in [1..n -> UNION {[1..m -> RateEntries] : m \in 0..MaxData}]} :
           n \in 0..MaxResults}

\* The observations already stored when the batch arrives.
IngestStores(cat) ==
    {<<>>} \cup {<<[id |-> 1, loanProduct |-> cat[i].id, date |-> 1, rate |-> Num(2400),
                    creditScoreRange |-> [min |-> 620, max |-> 850]]>> :
                 i \in DOMAIN cat}

InitIngest ==
    /\ catalog \in IngestCatalogs
    /\ rates \in IngestStores(catalog)
    /\ params \in FetchedRates
    /\ pc = "fetched"
    /\ eligibleProducts = <<>>
    /\ idx = 0
    /\ analyzedProducts = <<>>
    /\ trace = <<>>
    /\ result = NoResult

\* LoanProduct.findOne({name, type}) (lines 85-88): the first matching document,
\* or none.
findOne(cat, name, type) ==
    LET hits == {i \in DOMAIN cat : cat[i].name = name /\ cat[i].type = type}
    IN  IF hits = {} THEN {}
        ELSE {cat[CHOOSE i \in hits : \A j \in hits : i <= j]}

\* rateInfo.minCreditScore || 0 (line 102).
MinOrZero(field) == IF field = {} THEN 0 ELSE CHOOSE x \in field : TRUE

\* The catch of lines 111-113 had it left the loop of the data it stands in.
RestAfterErrorAborts(rest) == <<>>

\* The catch block (lines 111-113) is inside the loop body: after an error the
\* loop goes on with the entries that remain.
RestAfterError(rest) == rest

\* The inner loop of processRates (lines 82-114) over the data of one result:
\* processed as it stands after the loop. stored counts the documents of the
\* collection before the call.
RECURSIVE ProcessData(_, _, _, _, _)
ProcessData(data, timestamp, cat, stored, processed) ==
    IF data = <<>> \/ processed # processed THEN processed
    ELSE LET rateInfo == Head(data)
             loanProduct == findOne(cat, rateInfo.productName, rateInfo.loanType)
             newRate == [id |-> stored + Len(processed) + 1,
                         loanProduct |-> (CHOOSE p \in loanProduct : TRUE).id,
                         date |-> timestamp,
                         rate |-> rateInfo.interestRate,
                         creditScoreRange |->
                             [min |-> MinOrZero(rateInfo.minCreditScore), max |-> 850]]
         IN  IF rateInfo.raises
             THEN ProcessData(RestAfterError(Tail(data)), timestamp, cat, stored, processed)
             ELSE IF loanProduct = {}
             THEN ProcessData(Tail(data), timestamp, cat, stored, processed)
             ELSE ProcessData(Tail(data), timestamp, cat, stored,
                              Append(processed, newRate))

\* The outer loop of processRates (lines 79-115).
RECURSIVE ProcessResults(_, _, _, _)
ProcessResults(results, cat, stored, processed) ==
    IF results = <<>> \/ processed # processed THEN processed
    ELSE ProcessResults(Tail(results), cat, stored,
                        ProcessData(Head(results).data, Head(results).timestamp,
                                    cat, stored, processed))

\* processRates(fetchedRates): the list it returns, which is also what it saved.
processRates(fetchedRates, cat, stored) ==
    ProcessResults(fetchedRates.results, cat, stored, <<>>)

\* One call of processRates on the fetched batch.
ProcessRates ==
    /\ pc = "fetched"
    /\ LET processed == processRates(params, catalog, Len(rates))
       IN  /\ rates' = rates \o processed
           /\ result' = [kind |-> "processed", processed |-> processed]
    /\ pc' = "processed"
    /\ UNCHANGED <<catalog, params, eligibleProducts, idx, analyzedProducts, trace>>

NextIngest == ProcessRates

SpecIngest == InitIngest /\ [][NextIngest]_vars

\* The fetched entries in the order of the batch, each with its result's time.
RECURSIVE EntriesOf(_)
EntriesOf(results) ==
    IF results = <<>> THEN <<>>
    ELSE [k \in DOMAIN Head(results).data |->
             [rateInfo |-> Head(results).data[k], timestamp |-> Head(results).timestamp]]
         \o EntriesOf(Tail(results))

MatchesProduct(entry, p) ==
    p.name = entry.rateInfo.productName /\ p.type = entry.rateInfo.loanType

\* The entry matched a product and nothing raised while it was processed.
MatchedAndSaved(entry) ==
    /\ ~entry.rateInfo.raises
    /\ \E i \in DOMAIN catalog : MatchesProduct(entry, catalog[i])

\* C20: processRates only appends: after a call every earlier observation is
\* still stored unchanged, no product is created or modified, and the new
\* observations are exactly the returned list, one per fetched entry whose
\* (productName, loanType) matched a product and whose save succeeded, in the
\* order of the batch; entries without a product or whose processing raised are
\* skipped and the entries after them are still processed.
C20_ProcessRatesOnlyAppends ==
    [][(pc = "fetched" /\ pc' = "processed") =>
          LET kept == SelectSeq(EntriesOf(params.results), MatchedAndSaved)
              new == SubSeq(rates', Len(rates) + 1, Len(rates'))
          IN  /\ catalog' = catalog
              /\ Len(rates') >= Len(rates)
              /\ SubSeq(rates', 1, Len(rates)) = rates
              /\ new = result'.processed
              /\ Len(new) = Len(kept)
              /\ \A k \in DOMAIN new :
                    /\ new[k].rate = kept[k].rateInfo.interestRate
                    /\ new[k].date = kept[k].timestamp
                    /\ \E i \in DOMAIN catalog :
                          /\ catalog[i].id = new[k].loanProduct
                          /\ MatchesProduct(kept[k], catalog[i])]_vars

\* A call on a store that held an observation, whose batch had an entry that
\* raised and an entry without a product, each followed by an entry that was
\* saved.
C20_Witness ==
    /\ pc = "processed"
    /\ Len(rates) > Len(result.processed)
    /\ LET entries == EntriesOf(params.results)
       IN  /\ \E j, k \in DOMAIN entries :
                 j < k /\ entries[j].rateInfo.raises /\ MatchedAndSaved(entries[k])
           /\ \E j, k \in DOMAIN entries :
                 /\ j < k
                 /\ ~entries[j].rateInfo.raises
                 /\ ~MatchedAndSaved(entries[j])
                 /\ MatchedAndSaved(entries[k])

-----------------------------------------------------------------------------
(* The credit score of a call, and what a successful result offers.          *)

\* The band text of the credit-score advisory for a score.
BandText(score) ==
    IF score >= 750 THEN "excellent"
    ELSE IF score >= 700 THEN "good"
    ELSE IF score >= 650 THEN "fair"
    ELSE "limiting"

\* The advisory texts of the insights of the result.
AdvisoryTexts ==
    {result.insights[i].text :
        i \in {j \in DOMAIN result.insights : result.insights[j].type = "credit_impact"}}

\* C21: within one analyzeLoanOptions call the same credit score is used
\* everywhere: the caller's score, or 700 when the caller gave none, is the score
\* of the eligibility filter, of the alternatives search and of the band of the
\* credit-score advisory in insights.
C21_OneCreditScoreEverywhere ==
    pc \in {"metrics", "done"} =>
        LET score == CreditScoreOf(params)
        IN  /\ eligibleProducts = getEligibleProducts(catalog, params.loanType,
                                      params.amount, params.term, score)
            /\ ReturnedEmpty =>
                  result.alternatives = suggestAlternatives(catalog, params.loanType,
                                            params.amount, params.term, score)
            /\ Succeeded => AdvisoryTexts \subseteq {BandText(score)}

\* C22: a result with success: true always offers at least one option:
\* allOptions is non-empty, topOptions is the first min(3, |allOptions|) entries
\* of allOptions in order, recommendations.bestOverall is allOptions[0] and not
\* null, and insights is non-empty, also when every eligible product lacks an
\* applicable rate.
C22_SuccessOffersAnOption ==
    Succeeded =>
        LET n == Len(result.allOptions)
        IN  /\ n >= 1
            /\ result.topOptions = SubSeq(result.allOptions, 1, IF n < 3 THEN n ELSE 3)
            /\ result.recommendations.bestOverall # Null
            /\ result.recommendations.bestOverall = result.allOptions[1]
            /\ result.insights # <<>>

=============================================================================
